---- MODULE Spec2Model ----
(***************************************************************************)
(* Model of the gitea webhook dispatcher of go-scm                         *)
(* (scm/driver/gitea/webhook.go): webhookService.Parse, the per-event      *)
(* parse*Hook decoders and the convert*Hook converters.                    *)
(*                                                                         *)
(* One delivery is processed at a time.  Parse is split at the points      *)
(* where it consumes something from its environment: the body read, the    *)
(* decode/convert switch, the call of the secret resolver and the          *)
(* signature check.                                                        *)
(***************************************************************************)
EXTENDS Integers, Sequences, FiniteSets, TLC

\* ------------------------------------------------------------------------
\* Bounds and program constants
\* ------------------------------------------------------------------------

\* longest commit list of a push payload
MaxCommits == 2

\* io.LimitReader(req.Body, 10000000)
LimitBytes == 10000000

Min(a, b) == IF a < b THEN a ELSE b

\* ------------------------------------------------------------------------
\* Values
\* ------------------------------------------------------------------------

\* Go strings the secret resolver returns as key; "" is the empty string.
Keys == {"", "k1", "k2"}

\* values of the payload's secret member and of the request's form value
Secrets == {"", "k1", "K1"}

\* error values; every error is a record with a kind and a detail string
NoErr == [kind |-> "nil", detail |-> ""]
ErrSignatureInvalid == [kind |-> "ErrSignatureInvalid", detail |-> ""]
ErrJSON == [kind |-> "json", detail |-> ""]
ErrRead == [kind |-> "io", detail |-> ""]
ErrResolver == [kind |-> "resolver", detail |-> "lookup failed"]
UnknownWebhook(event) == [kind |-> "UnknownWebhook", detail |-> event]

\* the nil scm.Webhook
NilHook == [kind |-> "nil"]

\* gitea.User as decoded from the payload
ZeroUser == [UserName |-> "", Email |-> "", FullName |-> ""]
Alice == [UserName |-> "alice", Email |-> "alice@example.com", FullName |-> "Alice A"]
Bob == [UserName |-> "bob", Email |-> "bob@example.com", FullName |-> "Bob B"]

\* gitea.Repository as decoded from the payload
ZeroRepository == [Owner |-> "", Name |-> "", DefaultBranch |-> ""]
Repo1 == [Owner |-> "gogits", Name |-> "hello-world", DefaultBranch |-> "master"]

\* the commit entries of a push payload
Commit1 ==
    [Message |-> "first", Timestamp |-> "t1",
     Author |-> [Name |-> "Carol C", Email |-> "carol@example.com", Username |-> "carol"],
     Committer |-> [Name |-> "Dave D", Email |-> "dave@example.com", Username |-> "dave"]]
Commit2 ==
    [Message |-> "second", Timestamp |-> "t2",
     Author |-> [Name |-> "Erin E", Email |-> "erin@example.com", Username |-> "erin"],
     Committer |-> [Name |-> "Erin E", Email |-> "erin@example.com", Username |-> "erin"]]

CommitLists == UNION {[1..n -> {Commit1, Commit2}] : n \in 0..MaxCommits}

\* ------------------------------------------------------------------------
\* Native payload structures (zero values as left by new(T))
\* ------------------------------------------------------------------------

pushHook ==
    [Secret |-> "", Ref |-> "", Before |-> "", After |-> "", Compare |-> "",
     Commits |-> <<>>, Repository |-> ZeroRepository, Pusher |-> ZeroUser,
     Sender |-> ZeroUser]

createHook ==
    [Ref |-> "", RefType |-> "", Sha |-> "", DefaultBranch |-> "",
     Repository |-> ZeroRepository, Sender |-> ZeroUser]

\* gitea.Issue / gitea.Comment / gitea.PullRequest, reduced to the fields
\* the converters read; PullRequest is the issue's back-reference (nil or not)
ZeroIssue == [Number |-> 0, Title |-> "", PullRequest |-> FALSE]
ZeroComment == [ID |-> 0, Body |-> ""]
ZeroPullRequest == [Number |-> 0, Title |-> ""]
ZeroReview == [Type |-> "", Content |-> ""]

issueHook ==
    [Action |-> "", Issue |-> ZeroIssue, Comment |-> ZeroComment,
     Repository |-> ZeroRepository, Sender |-> ZeroUser]

pullRequestHook ==
    [Action |-> "", Number |-> 0, PullRequest |-> ZeroPullRequest,
     Repository |-> ZeroRepository, Sender |-> ZeroUser]

pullRequestReviewHook ==
    [Action |-> "", Number |-> 0, PullRequest |-> ZeroPullRequest,
     Repository |-> ZeroRepository, Sender |-> ZeroUser, Review |-> ZeroReview]

\* ------------------------------------------------------------------------
\* Request bodies
\* ------------------------------------------------------------------------

\* A JSON document is described by what json.Unmarshal makes of it: json is
\* "ok", "syntax" (not valid JSON: nothing is decoded) or "type" (valid JSON
\* with a member of the wrong type: the other members are still decoded and
\* the error is returned at the end).  The remaining fields are the members
\* that decode, named as the struct fields they decode into.
ZeroDoc ==
    [json |-> "ok",
     Secret |-> "", Ref |-> "", RefType |-> "", Sha |-> "", DefaultBranch |-> "",
     Before |-> "", After |-> "", Compare |-> "", Commits |-> <<>>,
     Repository |-> ZeroRepository, Pusher |-> ZeroUser, Sender |-> ZeroUser,
     Action |-> "", Number |-> 0, Issue |-> ZeroIssue, Comment |-> ZeroComment,
     PullRequest |-> ZeroPullRequest, Review |-> ZeroReview]

BaseDoc ==
    [ZeroDoc EXCEPT !.Ref = "refs/heads/master", !.Sha = "s1", !.Before = "b0",
                    !.After = "a1", !.Compare = "http://gitea/compare",
                    !.Repository = Repo1, !.Pusher = Bob, !.Sender = Alice,
                    !.Action = "opened", !.Number = 1,
                    !.Issue = [Number |-> 1, Title |-> "bug", PullRequest |-> FALSE],
                    !.Comment = [ID |-> 7, Body |-> "lgtm"],
                    !.PullRequest = [Number |-> 1, Title |-> "fix"],
                    !.Review = [Type |-> "pull_request_review_approved", Content |-> "ok"]]

Decodable == {"ok", "type"}

\* values of the payload's action member: the verbs convertAction knows, a
\* verb it does not know, a known verb in another case, and the empty string
Verbs ==
    {"create", "created", "delete", "deleted", "update", "updated", "edit",
     "edited", "open", "opened", "reopen", "reopened", "close", "closed",
     "label", "labeled", "label_updated", "unlabel", "unlabeled",
     "label_cleared", "merge", "merged", "synchronize", "synchronized",
     "assigned", "unassigned", "reviewed", "archived", "Closed", ""}

Docs ==
    {[ZeroDoc EXCEPT !.json = "syntax"], ZeroDoc}
    \cup {[BaseDoc EXCEPT !.json = j, !.Secret = s] :
            j \in Decodable, s \in Secrets}
    \cup {[BaseDoc EXCEPT !.Commits = cs] : cs \in CommitLists}
    \cup {[BaseDoc EXCEPT !.json = j, !.RefType = rt] :
            j \in Decodable, rt \in {"tag", "branch", "repository", "Tag"}}
    \cup {[BaseDoc EXCEPT !.Issue.PullRequest = TRUE, !.Action = a] :
            a \in {"created", "closed", "archived"}}
    \cup {[BaseDoc EXCEPT !.Issue.PullRequest = TRUE, !.json = "type"]}
    \cup {[BaseDoc EXCEPT !.Action = a] : a \in Verbs}
    \cup {[BaseDoc EXCEPT !.Sender = ZeroUser, !.RefType = "tag",
                          !.Review.Type = t] :
            t \in {"pull_request_review_rejected", "commented"}}

\* lengths of request bodies: short, exactly at the limit, one byte over
BodyLens == {64, LimitBytes, LimitBytes + 1}

\* A body is its length and the document its first LimitBytes bytes form.
Bodies == [len : BodyLens, doc : Docs]

\* ------------------------------------------------------------------------
\* Decoding
\* ------------------------------------------------------------------------

\* ioutil.ReadAll(io.LimitReader(req.Body, 10000000)): at most LimitBytes
\* bytes are read and the rest of the body is left unread, without an error
LimitRead(body) == [body EXCEPT !.len = Min(body.len, LimitBytes)]

\* json.Unmarshal(data, dst) for dst = new(T), zero being T's zero value:
\* the decoded struct and whether an error is returned
Unmarshal(data, zero) ==
    [dst |-> [f \in DOMAIN zero |->
                 IF data.doc.json = "syntax" THEN zero[f] ELSE data.doc[f]],
     err |-> IF data.doc.json = "ok" THEN NoErr ELSE ErrJSON]

\* ------------------------------------------------------------------------
\* Conversion to the canonical model
\* ------------------------------------------------------------------------

convertUser(src) ==
    [Login |-> src.UserName, Name |-> src.FullName, Email |-> src.Email]

convertRepository(src) ==
    [Namespace |-> src.Owner, Name |-> src.Name, Branch |-> src.DefaultBranch]

convertIssue(src) ==
    [Number |-> src.Number, Title |-> src.Title, PullRequest |-> src.PullRequest]

convertPullRequestFromIssue(src) ==
    [Number |-> src.Number, Title |-> src.Title]

convertPullRequest(src) ==
    [Number |-> src.Number, Title |-> src.Title]

convertIssueComment(src) ==
    [ID |-> src.ID, Body |-> src.Body]

convertReviewAction(src) ==
    CASE src = "pull_request_review_approved" -> "ActionSubmitted"
      [] src = "pull_request_review_comment" -> "ActionEdited"
      [] src = "pull_request_review_rejected" -> "ActionDismissed"
      [] OTHER -> "ActionUnknown"

convertActionCloseOnly(src) ==
    CASE src \in {"create", "created"} -> "ActionCreate"
      [] src \in {"delete", "deleted"} -> "ActionDelete"
      [] src \in {"update", "updated", "edit", "edited"} -> "ActionUpdate"
      [] src \in {"open", "opened"} -> "ActionOpen"
      [] src \in {"reopen", "reopened"} -> "ActionReopen"
      [] src = "close" -> "ActionClose"
      [] src \in {"label", "labeled", "label_updated"} -> "ActionLabel"
      [] src \in {"unlabel", "unlabeled", "label_cleared"} -> "ActionUnlabel"
      [] src \in {"merge", "merged"} -> "ActionMerge"
      [] src \in {"synchronize", "synchronized"} -> "ActionSync"
      [] src = "assigned" -> "ActionAssigned"
      [] src = "unassigned" -> "ActionUnassigned"
      [] src = "reviewed" -> "ActionSubmitted"
      [] OTHER -> "ActionUnknown"

convertAction(src) ==
    CASE src \in {"create", "created"} -> "ActionCreate"
      [] src \in {"delete", "deleted"} -> "ActionDelete"
      [] src \in {"update", "updated", "edit", "edited"} -> "ActionUpdate"
      [] src \in {"open", "opened"} -> "ActionOpen"
      [] src \in {"reopen", "reopened"} -> "ActionReopen"
      [] src \in {"close", "closed"} -> "ActionClose"
      [] src \in {"label", "labeled", "label_updated"} -> "ActionLabel"
      [] src \in {"unlabel", "unlabeled", "label_cleared"} -> "ActionUnlabel"
      [] src \in {"merge", "merged"} -> "ActionMerge"
      [] src \in {"synchronize", "synchronized"} -> "ActionSync"
      [] src = "assigned" -> "ActionAssigned"
      [] src = "unassigned" -> "ActionUnassigned"
      [] src = "reviewed" -> "ActionSubmitted"
      [] OTHER -> "ActionUnknown"

convertTagHook(dst, action) ==
    [kind |-> "TagHook", Action |-> action,
     Ref |-> [Name |-> dst.Ref, Sha |-> dst.Sha],
     Repo |-> convertRepository(dst.Repository),
     Sender |-> convertUser(dst.Sender)]

convertBranchHook(dst, action) ==
    [kind |-> "BranchHook", Action |-> action,
     Ref |-> [Name |-> dst.Ref, Sha |-> ""],
     Repo |-> convertRepository(dst.Repository),
     Sender |-> convertUser(dst.Sender)]

convertPushHookPusherOnly(dst) ==
    [kind |-> "PushHook", Ref |-> dst.Ref,
     Commit |-> [Sha |-> dst.After, Message |-> "", Link |-> dst.Compare,
                 Author |-> [Login |-> dst.Pusher.UserName,
                             Email |-> dst.Pusher.Email,
                             Name |-> dst.Pusher.FullName, Date |-> ""],
                 Committer |-> [Login |-> dst.Pusher.UserName,
                                Email |-> dst.Pusher.Email,
                                Name |-> dst.Pusher.FullName, Date |-> ""]],
     Repo |-> convertRepository(dst.Repository),
     Sender |-> convertUser(dst.Sender)]

convertPushHook(dst) ==
    IF Len(dst.Commits) > 0
    THEN [kind |-> "PushHook", Ref |-> dst.Ref,
          Commit |-> [Sha |-> dst.After,
                      Message |-> dst.Commits[1].Message,
                      Link |-> dst.Compare,
                      Author |-> [Login |-> dst.Commits[1].Author.Username,
                                  Email |-> dst.Commits[1].Author.Email,
                                  Name |-> dst.Commits[1].Author.Name,
                                  Date |-> dst.Commits[1].Timestamp],
                      Committer |-> [Login |-> dst.Commits[1].Committer.Username,
                                     Email |-> dst.Commits[1].Committer.Email,
                                     Name |-> dst.Commits[1].Committer.Name,
                                     Date |-> dst.Commits[1].Timestamp]],
          Repo |-> convertRepository(dst.Repository),
          Sender |-> convertUser(dst.Sender)]
    ELSE [kind |-> "PushHook", Ref |-> dst.Ref,
          Commit |-> [Sha |-> dst.After, Message |-> "", Link |-> dst.Compare,
                      Author |-> [Login |-> dst.Pusher.UserName,
                                  Email |-> dst.Pusher.Email,
                                  Name |-> dst.Pusher.FullName, Date |-> ""],
                      Committer |-> [Login |-> dst.Pusher.UserName,
                                     Email |-> dst.Pusher.Email,
                                     Name |-> dst.Pusher.FullName, Date |-> ""]],
          Repo |-> convertRepository(dst.Repository),
          Sender |-> convertUser(dst.Sender)]

convertPullRequestHook(dst) ==
    [kind |-> "PullRequestHook", Action |-> convertAction(dst.Action),
     PullRequest |-> convertPullRequest(dst.PullRequest),
     Repo |-> convertRepository(dst.Repository),
     Sender |-> convertUser(dst.Sender)]

convertPullRequestReviewPayload(dst) ==
    [Body |-> dst.Review.Content, Author |-> convertUser(dst.Sender)]

convertPullRequestReviewHook(dst) ==
    [kind |-> "ReviewHook", Action |-> convertReviewAction(dst.Review.Type),
     PullRequest |-> convertPullRequest(dst.PullRequest),
     Repo |-> convertRepository(dst.Repository),
     Review |-> convertPullRequestReviewPayload(dst)]

convertPullRequestCommentHook(dst) ==
    [kind |-> "PullRequestCommentHook", Action |-> convertAction(dst.Action),
     PullRequest |-> convertPullRequestFromIssue(dst.Issue),
     Comment |-> convertIssueComment(dst.Comment),
     Repo |-> convertRepository(dst.Repository),
     Sender |-> convertUser(dst.Sender)]

convertIssueHook(dst) ==
    [kind |-> "IssueHook", Action |-> convertAction(dst.Action),
     Issue |-> convertIssue(dst.Issue),
     Repo |-> convertRepository(dst.Repository),
     Sender |-> convertUser(dst.Sender)]

convertIssueCommentHook(dst) ==
    [kind |-> "IssueCommentHook", Action |-> convertAction(dst.Action),
     Issue |-> convertIssue(dst.Issue),
     Comment |-> convertIssueComment(dst.Comment),
     Repo |-> convertRepository(dst.Repository),
     Sender |-> convertUser(dst.Sender)]

\* ------------------------------------------------------------------------
\* parse*Hook: decode, then convert; each returns the hook and the error
\* of json.Unmarshal (parsePushHook also the native struct)
\* ------------------------------------------------------------------------

parsePushHook(data) ==
    LET u == Unmarshal(data, pushHook)
    IN  [hook |-> convertPushHook(u.dst), push |-> u.dst, err |-> u.err]

parseCreateHookDefaultBranch(data) ==
    LET u == Unmarshal(data, createHook)
    IN  CASE u.dst.RefType = "tag" ->
               [hook |-> convertTagHook(u.dst, "ActionCreate"), err |-> u.err]
          [] OTHER ->
               [hook |-> convertBranchHook(u.dst, "ActionCreate"), err |-> u.err]

parseCreateHook(data) ==
    LET u == Unmarshal(data, createHook)
    IN  CASE u.dst.RefType = "tag" ->
               [hook |-> convertTagHook(u.dst, "ActionCreate"), err |-> u.err]
          [] u.dst.RefType = "branch" ->
               [hook |-> convertBranchHook(u.dst, "ActionCreate"), err |-> u.err]
          [] OTHER ->
               [hook |-> NilHook, err |-> UnknownWebhook(u.dst.RefType)]

parseDeleteHook(data) ==
    LET u == Unmarshal(data, createHook)
    IN  CASE u.dst.RefType = "tag" ->
               [hook |-> convertTagHook(u.dst, "ActionDelete"), err |-> u.err]
          [] u.dst.RefType = "branch" ->
               [hook |-> convertBranchHook(u.dst, "ActionDelete"), err |-> u.err]
          [] OTHER ->
               [hook |-> NilHook, err |-> UnknownWebhook(u.dst.RefType)]

parseIssueHook(data) ==
    LET u == Unmarshal(data, issueHook)
    IN  [hook |-> convertIssueHook(u.dst), err |-> u.err]

parseIssueCommentHookNeverPullRequest(data) ==
    LET u == Unmarshal(data, issueHook)
    IN  [hook |-> convertIssueCommentHook(u.dst), err |-> u.err]

parseIssueCommentHook(data) ==
    LET u == Unmarshal(data, issueHook)
    IN  IF u.dst.Issue.PullRequest
        THEN [hook |-> convertPullRequestCommentHook(u.dst), err |-> u.err]
        ELSE [hook |-> convertIssueCommentHook(u.dst), err |-> u.err]

parsePullRequestHook(data) ==
    LET u == Unmarshal(data, pullRequestHook)
    IN  [hook |-> convertPullRequestHook(u.dst), err |-> u.err]

parsePullRequestReviewHook(data) ==
    LET u == Unmarshal(data, pullRequestReviewHook)
    IN  [hook |-> convertPullRequestReviewHook(u.dst), err |-> u.err]

\* ------------------------------------------------------------------------
\* Signatures
\* ------------------------------------------------------------------------

\* The keyed SHA-256 digest of the bytes read, as a byte string.  Distinct
\* (key, data) pairs have distinct digests.
HmacSha256(key, data) == <<key, data>>

\* A header value is a string; what matters of it is whether it is the hex
\* encoding of a byte string, and of which.  The empty string encodes <<>>.
HexString(bytes) == [hex |-> TRUE, bytes |-> bytes]
EmptyString == HexString(<<>>)
NotHex == [hex |-> FALSE, bytes |-> <<>>]

\* hmac.Validate(sha256.New, message, key, signature)
Validate(message, key, signature) ==
    /\ signature.hex
    /\ signature.bytes = HmacSha256(key, message)

\* a byte string of the same length that differs in one place
Changed(body) == [body EXCEPT !.doc.Ref = "refs/heads/other"]

\* the X-Gitea-Signature values tried for a body: absent, not hexadecimal,
\* a truncated digest, and the digest under each key of the whole body, of
\* the part of it that is read and of that part with a byte changed
Signatures(body) ==
    {EmptyString, NotHex, HexString(SubSeq(HmacSha256("k1", LimitRead(body)), 1, 1))}
    \cup {HexString(HmacSha256(k, b)) :
            k \in Keys \ {""},
            b \in {body, LimitRead(body), Changed(LimitRead(body))}}

\* ------------------------------------------------------------------------
\* Requests
\* ------------------------------------------------------------------------

KnownEvents ==
    {"push", "create", "delete", "issues", "issue_comment", "pull_request",
     "reviewed"}

\* values of the X-Gitea-Event header; "" is what Header.Get gives for an
\* absent header
Events == KnownEvents \cup {"", "unsupported_event", "Push"}

\* Every event and body is tried without a signature header and with one
\* that is not hexadecimal; the digests are tried on the bodies that decode.
Signed == {b \in Bodies : b.doc.json = "ok" /\ b.doc.Commits = <<>>}

Requests ==
    {[event |-> e, body |-> b, signature |-> sg, form |-> f] :
        e \in Events, b \in Bodies, f \in {"", "k1"},
        sg \in {EmptyString, NotHex}}
    \cup UNION {{[event |-> e, body |-> b, signature |-> sg, form |-> f] :
                    e \in {"push", "create", "reviewed"}, f \in Secrets,
                    sg \in Signatures(b)} : b \in Signed}

NoRequest ==
    [event |-> "", body |-> [len |-> 0, doc |-> ZeroDoc],
     signature |-> EmptyString, form |-> ""]

\* ------------------------------------------------------------------------
\* webhookService.Parse
\* ------------------------------------------------------------------------

VARIABLES
    pc,        \* position in Parse: idle, ReadAll, switch, fn, verify, done
    req,       \* the request being parsed
    data,      \* the bytes read from the body
    hook,      \* local hook
    err,       \* local err
    secret,    \* local secret
    key,       \* what the resolver returned
    result,    \* what Parse returned: hook and error
    fnCalls,   \* how often the secret resolver was called
    fnArg,     \* the hook it was called with
    checked,   \* whether a signature or secret comparison was made
    reads      \* how often the body was read

hookVars ==
    <<pc, req, data, hook, err, secret, key, result, fnCalls, fnArg, checked,
      reads>>

\* The other entry points of the library (the gitlab user service, the
\* bitbucket organization service, the factory) are called one at a time.
VARIABLES
    apc,       \* position in the call: idle, FindLogin, done
    op,        \* the operation called
    args,      \* its arguments
    page,      \* FindLogin: opts.Page
    firstRun,  \* FindLogin: firstRun
    resp,      \* FindLogin: resp
    sent,      \* the HTTP requests issued by the call
    seen,      \* FindLogin: for each page fetched, whether it held a match
    ret        \* what the call returned

apiVars == <<apc, op, args, page, firstRun, resp, sent, seen, ret>>

vars == <<hookVars, apiVars>>

\* a nil *scm.Response
NilResp == [nil |-> TRUE, last |-> 0]

\* a nil result
NilVal == [kind |-> "nil"]

NoArgs == [login |-> "", driver |-> "", url |-> "", client |-> FALSE]

NoRet == [val |-> NilVal, res |-> NilResp, err |-> NoErr]

InitAPI ==
    /\ apc = "idle"
    /\ op = ""
    /\ args = NoArgs
    /\ page = 0
    /\ firstRun = FALSE
    /\ resp = NilResp
    /\ sent = <<>>
    /\ seen = {}
    /\ ret = NoRet

NoResult == [hook |-> NilHook, err |-> NoErr]

\* lines 32-54: the switch on the event header
DispatchEmptyEvent(event, d) ==
    IF event = "push"
    THEN LET p == parsePushHook(d)
         IN  [hook |-> p.hook, err |-> p.err, secret |-> p.push.Secret]
    ELSE [hook |-> NilHook, err |-> UnknownWebhook(""), secret |-> ""]

Dispatch(event, d) ==
    CASE event = "push" ->
           LET p == parsePushHook(d)
           IN  [hook |-> p.hook, err |-> p.err, secret |-> p.push.Secret]
      [] event = "create" ->
           LET p == parseCreateHook(d)
           IN  [hook |-> p.hook, err |-> p.err, secret |-> ""]
      [] event = "delete" ->
           LET p == parseDeleteHook(d)
           IN  [hook |-> p.hook, err |-> p.err, secret |-> ""]
      [] event = "issues" ->
           LET p == parseIssueHook(d)
           IN  [hook |-> p.hook, err |-> p.err, secret |-> ""]
      [] event = "issue_comment" ->
           LET p == parseIssueCommentHook(d)
           IN  [hook |-> p.hook, err |-> p.err, secret |-> ""]
      [] event = "pull_request" ->
           LET p == parsePullRequestHook(d)
           IN  [hook |-> p.hook, err |-> p.err, secret |-> ""]
      [] event = "reviewed" ->
           LET p == parsePullRequestReviewHook(d)
           IN  [hook |-> p.hook, err |-> p.err, secret |-> ""]
      [] OTHER ->
           [hook |-> NilHook, err |-> UnknownWebhook(event), secret |-> ""]

\* lines 59-61: fall back to req.FormValue("secret")
FormSecretFormFirst(s, form) == IF form = "" THEN s ELSE form

FormSecret(s, form) == IF s = "" THEN form ELSE s

\* lines 66-71: what Parse does with the resolver's answer; returned says
\* whether Parse returns here
ResolvedIgnoreEmptyKey(h, k, ferr) ==
    IF ferr # NoErr
    THEN [returned |-> TRUE, hook |-> h, err |-> ferr]
    ELSE [returned |-> FALSE, hook |-> h, err |-> NoErr]

ResolvedDropError(h, k, ferr) ==
    IF k = ""
    THEN [returned |-> TRUE, hook |-> h, err |-> NoErr]
    ELSE [returned |-> FALSE, hook |-> h, err |-> NoErr]

Resolved(h, k, ferr) ==
    IF ferr # NoErr
    THEN [returned |-> TRUE, hook |-> h, err |-> ferr]
    ELSE IF k = ""
         THEN [returned |-> TRUE, hook |-> h, err |-> NoErr]
         ELSE [returned |-> FALSE, hook |-> h, err |-> NoErr]

\* strings.ToLower on the strings of the model
ToLower(s) == IF s = "K1" THEN "k1" ELSE s

\* lines 73-90: the error Parse returns after the signature check
CheckSignatureSecretFirst(signature, s, k, d) ==
    IF s # "" /\ s = k THEN NoErr
    ELSE IF signature # EmptyString /\ Validate(d, k, signature) THEN NoErr
    ELSE ErrSignatureInvalid

CheckSignatureFold(signature, s, k, d) ==
    IF signature = EmptyString /\ s = "" THEN ErrSignatureInvalid
    ELSE IF signature = EmptyString /\ s # "" /\ ToLower(s) # ToLower(k)
         THEN ErrSignatureInvalid
    ELSE IF signature # EmptyString /\ ~Validate(d, k, signature)
         THEN ErrSignatureInvalid
    ELSE NoErr

CheckSignatureAnyHeader(signature, s, k, d) ==
    IF signature = EmptyString /\ s = "" THEN ErrSignatureInvalid
    ELSE IF signature = EmptyString /\ s # "" /\ s # k THEN ErrSignatureInvalid
    ELSE NoErr

CheckSignature(signature, s, k, d) ==
    IF signature = EmptyString /\ s = "" THEN ErrSignatureInvalid
    ELSE IF signature = EmptyString /\ s # "" /\ s # k THEN ErrSignatureInvalid
    ELSE IF signature # EmptyString /\ ~Validate(d, k, signature)
         THEN ErrSignatureInvalid
    ELSE NoErr

Init ==
    /\ pc = "idle"
    /\ req = NoRequest
    /\ data = NoRequest.body
    /\ hook = NilHook
    /\ err = NoErr
    /\ secret = ""
    /\ key = ""
    /\ result = NoResult
    /\ fnCalls = 0
    /\ fnArg = NilHook
    /\ checked = FALSE
    /\ reads = 0
    /\ InitAPI

\* a delivery arrives and Parse is called
Deliver ==
    /\ pc = "idle"
    /\ \E r \in Requests : req' = r
    /\ pc' = "ReadAll"
    /\ UNCHANGED <<data, hook, err, secret, key, result, fnCalls, fnArg, checked>>
    /\ UNCHANGED <<reads, apiVars>>

\* lines 25-30
ReadAll ==
    /\ pc = "ReadAll"
    /\ \E failed \in BOOLEAN :
         IF failed
         THEN /\ err' = ErrRead
              /\ result' = [hook |-> NilHook, err |-> ErrRead]
              /\ pc' = "done"
              /\ data' = data
         ELSE /\ data' = LimitRead(req.body)
              /\ pc' = "switch"
              /\ UNCHANGED <<err, result>>
    /\ reads' = reads + 1
    /\ UNCHANGED <<req, hook, secret, key, fnCalls, fnArg, checked>>
    /\ UNCHANGED apiVars

\* lines 32-61
Switch ==
    /\ pc = "switch"
    /\ LET d == Dispatch(req.event, data)
       IN  /\ hook' = d.hook
           /\ err' = d.err
           /\ IF d.err # NoErr
              THEN /\ secret' = d.secret
                   /\ result' = [hook |-> NilHook, err |-> d.err]
                   /\ pc' = "done"
              ELSE /\ secret' = FormSecret(d.secret, req.form)
                   /\ result' = result
                   /\ pc' = "fn"
    /\ UNCHANGED <<req, data, key, fnCalls, fnArg, checked>>
    /\ UNCHANGED <<reads, apiVars>>

\* lines 66-71, calling the resolver a second time when it fails
CallResolverRetry ==
    /\ pc = "fn"
    /\ \E k \in Keys, ferr \in {NoErr, ErrResolver} :
         LET r == Resolved(hook, k, ferr)
         IN  /\ key' = k
             /\ err' = ferr
             /\ fnCalls' = fnCalls + 1
             /\ fnArg' = hook
             /\ IF ferr # NoErr /\ fnCalls = 0
                THEN /\ result' = result
                     /\ pc' = "fn"
                ELSE IF r.returned
                THEN /\ result' = [hook |-> r.hook, err |-> r.err]
                     /\ pc' = "done"
                ELSE /\ result' = result
                     /\ pc' = "verify"
    /\ UNCHANGED <<req, data, hook, secret, checked>>
    /\ UNCHANGED <<reads, apiVars>>

\* lines 66-71: the resolver is called with the hook and answers
CallResolver ==
    /\ pc = "fn"
    /\ \E k \in Keys, ferr \in {NoErr, ErrResolver} :
         LET r == Resolved(hook, k, ferr)
         IN  /\ key' = k
             /\ err' = ferr
             /\ fnCalls' = fnCalls + 1
             /\ fnArg' = hook
             /\ IF r.returned
                THEN /\ result' = [hook |-> r.hook, err |-> r.err]
                     /\ pc' = "done"
                ELSE /\ result' = result
                     /\ pc' = "verify"
    /\ UNCHANGED <<req, data, hook, secret, checked>>
    /\ UNCHANGED <<reads, apiVars>>

\* lines 73-90
Verify ==
    /\ pc = "verify"
    /\ checked' = TRUE
    /\ result' = [hook |-> hook,
                  err |-> CheckSignature(req.signature, secret, key, data)]
    /\ pc' = "done"
    /\ UNCHANGED <<req, data, hook, err, secret, key, fnCalls, fnArg>>
    /\ UNCHANGED <<reads, apiVars>>

\* Parse has returned; the service keeps nothing between deliveries
Return ==
    /\ pc = "done"
    /\ pc' = "idle"
    /\ req' = NoRequest
    /\ data' = NoRequest.body
    /\ hook' = NilHook
    /\ err' = NoErr
    /\ secret' = ""
    /\ key' = ""
    /\ result' = NoResult
    /\ fnCalls' = 0
    /\ fnArg' = NilHook
    /\ checked' = FALSE
    /\ reads' = 0
    /\ UNCHANGED apiVars

Next ==
    \/ Deliver
    \/ ReadAll
    \/ Switch
    \/ CallResolver
    \/ Verify
    \/ Return

Spec == Init /\ [][Next]_vars

TypeOK ==
    /\ pc \in {"idle", "ReadAll", "switch", "fn", "verify", "done"}
    /\ fnCalls \in 0..1
    /\ checked \in BOOLEAN

\* ------------------------------------------------------------------------
\* Properties
\* ------------------------------------------------------------------------

\* Parse has returned and the body had been read without an error
Returned == pc = "done" /\ result.err # ErrRead

\* Parse has returned after the resolver answered a key and no error
Answered == pc = "done" /\ fnCalls = 1 /\ err = NoErr

\* the switch of lines 35-54 has been executed
Switched == pc \in {"fn", "verify"} \/ Returned

\* C1: with a non-empty key and a non-empty X-Gitea-Signature header, Parse
\* returns the event, and a nil error exactly when the header is the
\* HMAC-SHA256 of the bytes read under the key, whatever the embedded secret
\* is: a secret equal to the key does not rescue an invalid header and a
\* secret different from the key does not fail a valid one.
C1_HeaderSignatureDecides ==
    (Answered /\ key # "" /\ req.signature # EmptyString) =>
        /\ result.hook = hook
        /\ hook # NilHook
        /\ result.err = IF Validate(data, key, req.signature)
                        THEN NoErr ELSE ErrSignatureInvalid

\* an embedded secret equal to the key next to an invalid header signature
C1_Witness ==
    /\ Answered /\ key # "" /\ req.signature # EmptyString
    /\ secret = key
    /\ ~Validate(data, key, req.signature)
    /\ result.err = ErrSignatureInvalid

\* an embedded secret different from the key next to a valid header signature
C1_WitnessValid ==
    /\ Answered /\ key # "" /\ secret # key /\ secret # ""
    /\ Validate(data, key, req.signature)
    /\ result.err = NoErr

\* C2: with a non-empty key and no X-Gitea-Signature header, Parse returns
\* the event, and a nil error if and only if the embedded secret is
\* non-empty and exactly equal to the key; otherwise ErrSignatureInvalid.
C2_EmbeddedSecretDecides ==
    (Answered /\ key # "" /\ req.signature = EmptyString) =>
        /\ result.hook = hook
        /\ hook # NilHook
        /\ result.err \in {NoErr, ErrSignatureInvalid}
        /\ (result.err = NoErr) <=> (secret # "" /\ secret = key)

\* an embedded secret that differs from the key only in case is rejected
C2_Witness ==
    /\ Answered /\ req.signature = EmptyString
    /\ key = "k1" /\ secret = "K1"
    /\ result.err = ErrSignatureInvalid

\* C3: when the resolver answers an empty key and no error, Parse returns
\* the parsed event with a nil error whatever the signature header and the
\* embedded secret are, and makes no comparison.
C3_EmptyKeyDisablesVerification ==
    (Answered /\ key = "") =>
        /\ result = [hook |-> hook, err |-> NoErr]
        /\ hook # NilHook
        /\ ~checked

\* an empty key with a signature header that is not even hexadecimal and an
\* embedded secret
C3_Witness ==
    /\ Answered /\ key = ""
    /\ req.signature = NotHex /\ secret # ""
    /\ result.err = NoErr

\* C4: when the resolver answers an error, Parse returns that error and the
\* parsed event and makes no comparison, whatever key came with the error.
C4_ResolverErrorPropagates ==
    (pc = "done" /\ fnCalls = 1 /\ err # NoErr) =>
        /\ result = [hook |-> fnArg, err |-> ErrResolver]
        /\ fnArg = hook /\ hook # NilHook
        /\ ~checked

\* a resolver error that comes with a non-empty key
C4_Witness ==
    /\ pc = "done" /\ fnCalls = 1 /\ err = ErrResolver /\ key # ""
    /\ req.signature = EmptyString /\ secret = ""
    /\ result.err = ErrResolver

C6_DecodeErrorReturned ==
    (Returned /\ req.event \in KnownEvents /\ data.doc.json # "ok") =>
        /\ result = [hook |-> NilHook, err |-> ErrJSON]
        /\ fnCalls = 0

\* C7: a body longer than LimitBytes makes Parse fail with PayloadTooLarge.
C7_PayloadTooLarge ==
    (Returned /\ req.body.len > LimitBytes) =>
        /\ result.hook = NilHook
        /\ result.err.kind = "PayloadTooLarge"

\* C8: in parseCreateHook and parseDeleteHook the decoded ref_type alone
\* selects the variant: "tag" gives a TagHook and "branch" a BranchHook,
\* with ActionCreate for create and ActionDelete for delete; any other
\* value gives a nil event and UnknownWebhook carrying that value.
C8_RefTypeSelectsVariant ==
    (Switched /\ req.event \in {"create", "delete"}) =>
        LET rt == Unmarshal(data, createHook).dst.RefType
            action == IF req.event = "create" THEN "ActionCreate"
                      ELSE "ActionDelete"
        IN  CASE rt = "tag" -> hook.kind = "TagHook" /\ hook.Action = action
              [] rt = "branch" -> hook.kind = "BranchHook" /\ hook.Action = action
              [] OTHER -> /\ hook = NilHook
                          /\ result = [hook |-> NilHook,
                                       err |-> UnknownWebhook(rt)]

\* a create event for a ref type that is neither tag nor branch
C8_Witness ==
    /\ Switched /\ req.event = "create"
    /\ data.doc.json = "ok" /\ data.doc.RefType = "repository"
    /\ result = [hook |-> NilHook, err |-> UnknownWebhook("repository")]

\* C9: every event Parse returns carries the Repository and the Sender
\* converted from the payload's repository and sender.
C9_RepositoryAndSender ==
    (Returned /\ result.hook # NilHook) =>
        /\ "Repo" \in DOMAIN result.hook
        /\ result.hook.Repo = convertRepository(data.doc.Repository)
        /\ "Sender" \in DOMAIN result.hook
        /\ result.hook.Sender = convertUser(data.doc.Sender)

\* C10: convertPushHook takes Author, Committer and Message from the first
\* commit when there is one, and otherwise Author and Committer from the
\* pusher and an empty Message; Sha is the payload's after and Ref its ref.
C10_PushCommit ==
    (Switched /\ req.event = "push") =>
        LET dst == Unmarshal(data, pushHook).dst
            c == hook.Commit
        IN  /\ hook.kind = "PushHook"
            /\ hook.Ref = dst.Ref
            /\ c.Sha = dst.After
            /\ IF dst.Commits = <<>>
               THEN /\ c.Message = ""
                    /\ c.Author.Login = dst.Pusher.UserName
                    /\ c.Author.Email = dst.Pusher.Email
                    /\ c.Author.Name = dst.Pusher.FullName
                    /\ c.Committer.Login = dst.Pusher.UserName
                    /\ c.Committer.Email = dst.Pusher.Email
                    /\ c.Committer.Name = dst.Pusher.FullName
               ELSE /\ c.Message = Head(dst.Commits).Message
                    /\ c.Author.Login = Head(dst.Commits).Author.Username
                    /\ c.Author.Email = Head(dst.Commits).Author.Email
                    /\ c.Author.Name = Head(dst.Commits).Author.Name
                    /\ c.Committer.Login = Head(dst.Commits).Committer.Username
                    /\ c.Committer.Email = Head(dst.Commits).Committer.Email
                    /\ c.Committer.Name = Head(dst.Commits).Committer.Name

\* a push of two different commits by a pusher who wrote neither
C10_Witness ==
    /\ Switched /\ req.event = "push"
    /\ Len(data.doc.Commits) = 2
    /\ data.doc.Commits[1] # data.doc.Commits[2]
    /\ hook.Commit.Message = data.doc.Commits[1].Message
    /\ hook.Commit.Author.Login # data.doc.Pusher.UserName

\* C11: for an issue_comment event the hook is a PullRequestCommentHook if
\* and only if the decoded issue carries a pull-request back-reference, and
\* an IssueCommentHook otherwise; what Parse returns is that hook, or nil
\* together with the decoding error.
C11_IssueCommentVariant ==
    (Switched /\ req.event = "issue_comment") =>
        LET dst == Unmarshal(data, issueHook).dst
        IN  /\ hook.kind \in {"PullRequestCommentHook", "IssueCommentHook"}
            /\ (hook.kind = "PullRequestCommentHook") <=> dst.Issue.PullRequest
            /\ pc = "done" =>
                 IF data.doc.json = "ok"
                 THEN result.hook = hook
                 ELSE result = [hook |-> NilHook, err |-> ErrJSON]

\* a comment on an issue that is a pull request is returned as a
\* PullRequestCommentHook
C11_Witness ==
    /\ Returned /\ req.event = "issue_comment"
    /\ data.doc.Issue.PullRequest
    /\ result.hook.kind = "PullRequestCommentHook"
    /\ result.err = NoErr

\* the verbs of C12 with the canonical action each maps to
C12_Table ==
    {[verbs |-> {"create", "created"}, action |-> "ActionCreate"],
     [verbs |-> {"delete", "deleted"}, action |-> "ActionDelete"],
     [verbs |-> {"update", "updated", "edit", "edited"}, action |-> "ActionUpdate"],
     [verbs |-> {"open", "opened"}, action |-> "ActionOpen"],
     [verbs |-> {"reopen", "reopened"}, action |-> "ActionReopen"],
     [verbs |-> {"close", "closed"}, action |-> "ActionClose"],
     [verbs |-> {"label", "labeled", "label_updated"}, action |-> "ActionLabel"],
     [verbs |-> {"unlabel", "unlabeled", "label_cleared"}, action |-> "ActionUnlabel"],
     [verbs |-> {"merge", "merged"}, action |-> "ActionMerge"],
     [verbs |-> {"synchronize", "synchronized"}, action |-> "ActionSync"],
     [verbs |-> {"assigned"}, action |-> "ActionAssigned"],
     [verbs |-> {"unassigned"}, action |-> "ActionUnassigned"],
     [verbs |-> {"reviewed"}, action |-> "ActionSubmitted"]}

\* C12: the Action of an issue, issue-comment or pull-request hook is the
\* canonical action of the payload's verb: both verbs of each pair give the
\* same action ("close" and "closed" give ActionClose), and every other
\* string, also a known verb in another case, gives ActionUnknown; the
\* mapping itself never makes Parse fail.
C12_ActionMapping ==
    (Switched /\ req.event \in {"issues", "issue_comment", "pull_request"}) =>
        LET verb == Unmarshal(data, issueHook).dst.Action
        IN  /\ \A g \in C12_Table : verb \in g.verbs => hook.Action = g.action
            /\ verb \in {"close", "closed"} => hook.Action = "ActionClose"
            /\ (\A g \in C12_Table : verb \notin g.verbs) =>
                   hook.Action = "ActionUnknown"
            /\ (pc = "done" /\ fnCalls = 0) => result.err = ErrJSON

\* a known verb in another case gives ActionUnknown and no error
C12_Witness ==
    /\ Returned /\ req.event = "issues"
    /\ data.doc.Action = "Closed"
    /\ result.hook.kind = "IssueHook"
    /\ result.hook.Action = "ActionUnknown"
    /\ result.err = NoErr

\* both verbs of a pair are seen to give the same action
C12_WitnessPair ==
    /\ Returned /\ req.event = "pull_request"
    /\ data.doc.Action = "closed"
    /\ result.hook.Action = "ActionClose"

C13_WitnessAccepted ==
    /\ Answered /\ key # "" /\ secret = ""
    /\ req.signature = HexString(HmacSha256(key, req.body))
    /\ result.err = NoErr

C16_SecretSource ==
    (pc \in {"fn", "verify"} \/ (pc = "done" /\ fnCalls = 1)) =>
        LET member == Unmarshal(data, pushHook).dst.Secret
            embedded == IF req.event = "push" /\ member # ""
                        THEN member ELSE req.form
        IN  /\ secret = embedded
            /\ (Answered /\ key # "" /\ req.signature = EmptyString) =>
                   ((result.err = NoErr) <=> (embedded # "" /\ embedded = key))

\* an issues payload whose secret member is the key, without form value and
\* without signature header, is rejected
C16_Witness ==
    /\ Answered /\ req.event = "issues" /\ req.signature = EmptyString
    /\ data.doc.Secret = key /\ key # "" /\ req.form = ""
    /\ result.err = ErrSignatureInvalid

\* a push payload's secret is used although the form value differs
C16_WitnessPush ==
    /\ Answered /\ req.event = "push" /\ req.signature = EmptyString
    /\ data.doc.Secret = "K1" /\ req.form = "k1" /\ key = "k1"
    /\ result.err = ErrSignatureInvalid

\* ------------------------------------------------------------------------
\* Operations a provider does not offer
\* ------------------------------------------------------------------------

\* longest list of users in one page of a gitlab user search
MaxUsers == 2

\* largest last page the gitlab server reports
MaxLast == 3

ErrNotSupported == [kind |-> "ErrNotSupported", detail |-> ""]
ErrNotFound == [kind |-> "ErrNotFound", detail |-> ""]
ErrHTTP == [kind |-> "http", detail |-> ""]
Panic == [kind |-> "panic", detail |-> "nil pointer dereference"]

BoolVal(b) == [kind |-> "bool", b |-> b]

\* Each operation is given c, whether the service value has a client
\* attached, and answers with its results, the HTTP requests it issued and
\* whether it panicked.
NotSupported(zero) ==
    [val |-> zero, res |-> NilResp, err |-> ErrNotSupported, sent |-> <<>>]

\* gitlab userService
userCreateToken(c) == NotSupported(NilVal)
userDeleteToken(c) == NotSupported(NilVal)
userListInvitations(c) == NotSupported(NilVal)
userAcceptInvitation(c) == NotSupported(NilVal)

\* bitbucket organizationService
organizationCreate(c) == NotSupported(NilVal)
organizationDelete(c) == NotSupported(NilVal)

organizationIsMemberAsksServer(c) ==
    IF c
    THEN [val |-> BoolVal(FALSE), res |-> [nil |-> FALSE, last |-> 0],
          err |-> NoErr, sent |-> <<[kind |-> "member", login |-> "", page |-> 0]>>]
    ELSE [val |-> BoolVal(FALSE), res |-> NilResp, err |-> Panic, sent |-> <<>>]

organizationIsMember(c) == NotSupported(BoolVal(FALSE))
organizationIsAdmin(c) == NotSupported(BoolVal(FALSE))
organizationListTeams(c) == NotSupported(NilVal)
organizationListTeamMembers(c) == NotSupported(NilVal)
organizationListOrgMembers(c) == NotSupported(NilVal)
organizationListPendingInvitations(c) == NotSupported(NilVal)
organizationAcceptOrganizationInvitation(c) == NotSupported(NilVal)
organizationListMemberships(c) == NotSupported(NilVal)

\* github contentService.Delete, as TestContentDelete expects it
contentDelete(c) == NotSupported(NilVal)

Unsupported ==
    {"gitlab.Users.CreateToken", "gitlab.Users.DeleteToken",
     "gitlab.Users.ListInvitations", "gitlab.Users.AcceptInvitation",
     "bitbucket.Organizations.Create", "bitbucket.Organizations.Delete",
     "bitbucket.Organizations.IsMember", "bitbucket.Organizations.IsAdmin",
     "bitbucket.Organizations.ListTeams",
     "bitbucket.Organizations.ListTeamMembers",
     "bitbucket.Organizations.ListOrgMembers",
     "bitbucket.Organizations.ListPendingInvitations",
     "bitbucket.Organizations.AcceptOrganizationInvitation",
     "bitbucket.Organizations.ListMemberships",
     "github.Contents.Delete"}

Invoke(o, c) ==
    CASE o = "gitlab.Users.CreateToken" -> userCreateToken(c)
      [] o = "gitlab.Users.DeleteToken" -> userDeleteToken(c)
      [] o = "gitlab.Users.ListInvitations" -> userListInvitations(c)
      [] o = "gitlab.Users.AcceptInvitation" -> userAcceptInvitation(c)
      [] o = "bitbucket.Organizations.Create" -> organizationCreate(c)
      [] o = "bitbucket.Organizations.Delete" -> organizationDelete(c)
      [] o = "bitbucket.Organizations.IsMember" -> organizationIsMember(c)
      [] o = "bitbucket.Organizations.IsAdmin" -> organizationIsAdmin(c)
      [] o = "bitbucket.Organizations.ListTeams" -> organizationListTeams(c)
      [] o = "bitbucket.Organizations.ListTeamMembers" ->
           organizationListTeamMembers(c)
      [] o = "bitbucket.Organizations.ListOrgMembers" ->
           organizationListOrgMembers(c)
      [] o = "bitbucket.Organizations.ListPendingInvitations" ->
           organizationListPendingInvitations(c)
      [] o = "bitbucket.Organizations.AcceptOrganizationInvitation" ->
           organizationAcceptOrganizationInvitation(c)
      [] o = "bitbucket.Organizations.ListMemberships" ->
           organizationListMemberships(c)
      [] o = "github.Contents.Delete" -> contentDelete(c)

\* ------------------------------------------------------------------------
\* gitlab userService: Find and FindLogin
\* ------------------------------------------------------------------------

\* usernames on the server and logins looked for
Usernames == {"Alice", "bob", "42"}
Logins == {"alice", "BOB", "42", "carol"}

\* the gitlab user struct
UserNamed(n) ==
    [ID |-> 7, Username |-> n, Name |-> n, Email |-> "", Avatar |-> ""]

UserLists == UNION {[1..n -> {UserNamed(u) : u \in Usernames}] : n \in 0..MaxUsers}

\* convertUser of the gitlab driver
gitlabConvertUser(from) ==
    [kind |-> "user", ID |-> from.ID, Avatar |-> from.Avatar,
     Email |-> from.Email, Login |-> from.Username, Name |-> from.Name]

\* strconv.Atoi(login) returns no error
IsNumber(s) == s \in {"42"}

\* strings.EqualFold on the names of the model
Fold(s) ==
    CASE s = "Alice" -> "alice"
      [] s = "BOB" -> "bob"
      [] OTHER -> s

EqualFold(a, b) == Fold(a) = Fold(b)

Resp(last) == [nil |-> FALSE, last |-> last]

\* what s.client.do can answer: a failure, or a response reporting a last
\* page together with the decoded users
DoFailures == {[res |-> r, err |-> ErrHTTP, out |-> <<>>] :
                 r \in {NilResp, Resp(0)}}

DoAnswers(lists) ==
    {[res |-> Resp(l), err |-> NoErr, out |-> us] : l \in 0..MaxLast, us \in lists}

\* lines 74-78
userFind(c, o) ==
    IF c
    THEN [val |-> gitlabConvertUser(IF o.out = <<>> THEN UserNamed("")
                                    ELSE o.out[1]),
          res |-> o.res, err |-> o.err,
          sent |-> <<[kind |-> "user", login |-> "", page |-> 0]>>]
    ELSE [val |-> NilVal, res |-> NilResp, err |-> Panic, sent |-> <<>>]

\* line 88: the condition of the loop
FindLoginContinueBeforeLast(first, r, p) ==
    ~first \/ (~r.nil /\ p < r.last)

FindLoginContinue(first, r, p) ==
    ~first \/ (~r.nil /\ p <= r.last)

\* lines 90-100: the request of one iteration
FindLoginPath(login, p) ==
    IF ~IsNumber(login)
    THEN [kind |-> "search", login |-> login, page |-> p]
    ELSE [kind |-> "user", login |-> login, page |-> 0]

\* lines 105-109: the first user of the page whose name matches, or 0
FindLoginMatch(out, login) ==
    IF \E i \in 1..Len(out) : EqualFold(out[i].Username, login)
    THEN CHOOSE i \in 1..Len(out) :
           /\ EqualFold(out[i].Username, login)
           /\ \A j \in 1..(i - 1) : ~EqualFold(out[j].Username, login)
    ELSE 0

\* an operation without server round trips is called and returns
CallOperation ==
    /\ apc = "idle"
    /\ \E o \in Unsupported, c \in BOOLEAN :
         LET r == Invoke(o, c)
         IN  /\ op' = o
             /\ args' = [NoArgs EXCEPT !.client = c]
             /\ ret' = [val |-> r.val, res |-> r.res, err |-> r.err]
             /\ sent' = r.sent
    /\ apc' = "done"
    /\ UNCHANGED <<page, firstRun, resp, seen>>
    /\ UNCHANGED hookVars

\* gitlab Users.Find is called and returns
CallFind ==
    /\ apc = "idle"
    /\ \E c \in BOOLEAN, o \in DoFailures \cup DoAnswers({us \in UserLists : Len(us) = 1}) :
         LET r == userFind(c, o)
         IN  /\ op' = "gitlab.Users.Find"
             /\ args' = [NoArgs EXCEPT !.client = c]
             /\ ret' = [val |-> r.val, res |-> r.res, err |-> r.err]
             /\ sent' = r.sent
    /\ apc' = "done"
    /\ UNCHANGED <<page, firstRun, resp, seen>>
    /\ UNCHANGED hookVars

\* lines 80-87: gitlab Users.FindLogin is called
FindLoginCall ==
    /\ apc = "idle"
    /\ \E l \in Logins : args' = [NoArgs EXCEPT !.login = l, !.client = TRUE]
    /\ op' = "gitlab.Users.FindLogin"
    /\ page' = 1
    /\ firstRun' = FALSE
    /\ resp' = NilResp
    /\ apc' = "FindLogin"
    /\ UNCHANGED <<sent, seen, ret>>
    /\ UNCHANGED hookVars

\* lines 88-111: one iteration of the loop
FindLoginRequest ==
    /\ apc = "FindLogin"
    /\ FindLoginContinue(firstRun, resp, page)
    /\ sent' = Append(sent, FindLoginPath(args.login, page))
    /\ \E o \in DoFailures
                \cup DoAnswers(IF IsNumber(args.login)
                               THEN {us \in UserLists : Len(us) = 1}
                               ELSE UserLists) :
         IF o.err # NoErr
         THEN /\ ret' = [val |-> NilVal, res |-> NilResp, err |-> o.err]
              /\ apc' = "done"
              /\ UNCHANGED <<page, firstRun, resp, seen>>
         ELSE /\ firstRun' = TRUE
              /\ resp' = o.res
              /\ seen' = seen \cup {o.out[i].Username : i \in 1..Len(o.out)}
              /\ LET m == FindLoginMatch(o.out, args.login)
                 IN  IF m # 0
                     THEN /\ ret' = [val |-> gitlabConvertUser(o.out[m]),
                                     res |-> o.res, err |-> NoErr]
                          /\ apc' = "done"
                          /\ page' = page
                     ELSE /\ page' = page + 1
                          /\ UNCHANGED <<ret, apc>>
    /\ UNCHANGED <<op, args>>
    /\ UNCHANGED hookVars

\* line 112: the loop is left without a match
FindLoginNotFound ==
    /\ apc = "FindLogin"
    /\ ~FindLoginContinue(firstRun, resp, page)
    /\ ret' = [val |-> NilVal, res |-> resp, err |-> ErrNotFound]
    /\ apc' = "done"
    /\ UNCHANGED <<op, args, page, firstRun, resp, sent, seen>>
    /\ UNCHANGED hookVars

\* ------------------------------------------------------------------------
\* factory: NewClient, ensureGHEEndpoint, NewWebHookService
\* ------------------------------------------------------------------------

Drivers ==
    {"", "bitbucket", "bitbucketcloud", "fake", "fakegit", "gitea", "github",
     "gitlab", "gogs", "stash", "bitbucketserver", "svn"}

ServerURLs ==
    {"", "https://github.com", "http://github.com", "https://github.com/",
     "https://github.com/org/repo", "https://github.company.com",
     "http://github.company.com/", "https://ghe.example.com",
     "https://ghe.example.com/", "https://ghe.example.com/api/v3",
     "https://ghe.example.com/api"}

ErrMissingGitServerURL == [kind |-> "ErrMissingGitServerURL", detail |-> ""]
ErrUnsupportedKind(driver) == [kind |-> "Unsupported GIT_KIND value", detail |-> driver]

\* strings.HasPrefix, strings.Contains, strings.TrimPrefix, strings.TrimSuffix
HasPrefix(s, prefix) ==
    Len(s) >= Len(prefix) /\ SubSeq(s, 1, Len(prefix)) = prefix

HasSuffix(s, suffix) ==
    Len(s) >= Len(suffix) /\ SubSeq(s, Len(s) - Len(suffix) + 1, Len(s)) = suffix

Contains(s, substr) ==
    \E i \in 1..(Len(s) - Len(substr) + 1) :
       SubSeq(s, i, i + Len(substr) - 1) = substr

TrimPrefix(s, prefix) ==
    IF HasPrefix(s, prefix) THEN SubSeq(s, Len(prefix) + 1, Len(s)) ELSE s

TrimSuffix(s, suffix) ==
    IF HasSuffix(s, suffix) THEN SubSeq(s, 1, Len(s) - Len(suffix)) ELSE s

\* scm.URLJoin of two paths: exactly one "/" between them
URLJoin(a, b) == TrimSuffix(a, "/") \o "/" \o TrimPrefix(b, "/")

\* lines 177-186
ensureGHEEndpoint(u) ==
    IF HasPrefix(u, "https://github.com") \/ HasPrefix(u, "http://github.com")
    THEN "https://api.github.com"
    ELSE IF ~Contains(u, "/api/") THEN URLJoin(u, "/api/v3") ELSE u

\* lines 189-194
ensureBBCEndpoint(u) ==
    IF HasPrefix(u, "https://bitbucket.org") \/ HasPrefix(u, "http://bitbucket.org")
    THEN "https://api.bitbucket.org"
    ELSE u

\* the client a driver package builds for a server URL
Client(d, u) == [kind |-> "client", driver |-> d, url |-> u]

\* lines 59-133; the token and the options change only the HTTP transport
NewClient(driver0, serverURL) ==
    LET driver == IF driver0 = "" THEN "github" ELSE driver0
        missing == [val |-> NilVal, err |-> ErrMissingGitServerURL]
        made(d, u) == [val |-> Client(d, u), err |-> NoErr]
    IN  CASE driver \in {"bitbucket", "bitbucketcloud"} ->
               IF serverURL # ""
               THEN made("bitbucket", ensureBBCEndpoint(serverURL))
               ELSE made("bitbucket", "https://api.bitbucket.org")
          [] driver \in {"fake", "fakegit"} -> made("fake", "//fake.com/")
          [] driver = "gitea" ->
               IF serverURL = "" THEN missing ELSE made("gitea", serverURL)
          [] driver = "github" ->
               IF serverURL # ""
               THEN made("github", ensureGHEEndpoint(serverURL))
               ELSE made("github", "https://api.github.com")
          [] driver = "gitlab" ->
               IF serverURL # ""
               THEN made("gitlab", serverURL)
               ELSE made("gitlab", "https://gitlab.com")
          [] driver = "gogs" ->
               IF serverURL = "" THEN missing ELSE made("gogs", serverURL)
          [] driver \in {"stash", "bitbucketserver"} ->
               IF serverURL = "" THEN missing ELSE made("stash", serverURL)
          [] OTHER -> [val |-> NilVal, err |-> ErrUnsupportedKind(driver)]

WebhookService(d) == [kind |-> "webhookService", driver |-> d]

\* lines 204-229
NewWebHookService(driver0) ==
    LET driver == IF driver0 = "" THEN "github" ELSE driver0
    IN  CASE driver \in {"bitbucket", "bitbucketcloud"} ->
               [val |-> WebhookService("bitbucket"), err |-> NoErr]
          [] driver \in {"fake", "fakegit"} -> [val |-> NilVal, err |-> NoErr]
          [] driver = "gitea" -> [val |-> WebhookService("gitea"), err |-> NoErr]
          [] driver = "github" -> [val |-> WebhookService("github"), err |-> NoErr]
          [] driver = "gitlab" -> [val |-> WebhookService("gitlab"), err |-> NoErr]
          [] driver = "gogs" -> [val |-> WebhookService("gogs"), err |-> NoErr]
          [] driver \in {"stash", "bitbucketserver"} ->
               [val |-> WebhookService("stash"), err |-> NoErr]
          [] OTHER -> [val |-> NilVal, err |-> ErrUnsupportedKind(driver)]

\* factory.NewClient is called and returns
CallNewClient ==
    /\ apc = "idle"
    /\ \E d \in Drivers, u \in ServerURLs :
         /\ args' = [NoArgs EXCEPT !.driver = d, !.url = u]
         /\ ret' = [val |-> NewClient(d, u).val, res |-> NilResp,
                    err |-> NewClient(d, u).err]
    /\ op' = "factory.NewClient"
    /\ apc' = "done"
    /\ UNCHANGED <<page, firstRun, resp, sent, seen>>
    /\ UNCHANGED hookVars

\* factory.NewWebHookService is called and returns
CallNewWebHookService ==
    /\ apc = "idle"
    /\ \E d \in Drivers :
         /\ args' = [NoArgs EXCEPT !.driver = d]
         /\ ret' = [val |-> NewWebHookService(d).val, res |-> NilResp,
                    err |-> NewWebHookService(d).err]
    /\ op' = "factory.NewWebHookService"
    /\ apc' = "done"
    /\ UNCHANGED <<page, firstRun, resp, sent, seen>>
    /\ UNCHANGED hookVars

\* the caller has taken the results; the next call starts afresh
ReturnAPI ==
    /\ apc = "done"
    /\ apc' = "idle"
    /\ op' = ""
    /\ args' = NoArgs
    /\ page' = 0
    /\ firstRun' = FALSE
    /\ resp' = NilResp
    /\ sent' = <<>>
    /\ seen' = {}
    /\ ret' = NoRet
    /\ UNCHANGED hookVars

NextAPI ==
    \/ CallOperation
    \/ CallFind
    \/ FindLoginCall
    \/ FindLoginRequest
    \/ FindLoginNotFound
    \/ CallNewClient
    \/ CallNewWebHookService
    \/ ReturnAPI

\* A call that was started runs on: every iteration of the loop of FindLogin
\* is followed by the next one or by the return.
SpecAPI ==
    /\ Init
    /\ [][NextAPI]_vars
    /\ WF_vars(FindLoginRequest)
    /\ WF_vars(FindLoginNotFound)

TypeOKAPI ==
    /\ apc \in {"idle", "FindLogin", "done"}
    /\ page \in 0..(MaxLast + 1)
    /\ firstRun \in BOOLEAN
    /\ seen \subseteq Usernames
    /\ Len(sent) <= MaxLast + 1

\* ------------------------------------------------------------------------
\* Properties of the provider operations and of the factory
\* ------------------------------------------------------------------------

\* the call of operation o has returned
Done(o) == apc = "done" /\ op = o

\* C15: an operation the provider does not offer returns ErrNotSupported
\* with a nil or zero result and a nil response, whatever it is given, and
\* issues no HTTP request, with or without a client attached.
C15_NotSupported ==
    (apc = "done" /\ op \in Unsupported) =>
        /\ ret.err = ErrNotSupported
        /\ ret.val \in {NilVal, BoolVal(FALSE)}
        /\ ret.res = NilResp
        /\ sent = <<>>

C15_Witness ==
    /\ Done("bitbucket.Organizations.IsMember")
    /\ ~args.client
    /\ ret.err = ErrNotSupported
    /\ sent = <<>>

\* an operation the provider offers does ask the server
C15_WitnessOffered ==
    /\ Done("gitlab.Users.Find")
    /\ args.client
    /\ Len(sent) = 1

\* C17: NewWebHookService returns a service and no error, or no service and
\* an error; a driver name NewClient accepts gets a service when the error
\* is nil.
C17_ServiceOrError ==
    Done("factory.NewWebHookService") =>
        /\ \/ ret.val # NilVal /\ ret.err = NoErr
           \/ ret.val = NilVal /\ ret.err # NoErr
        /\ (\E u \in ServerURLs : NewClient(args.driver, u).err = NoErr) =>
              ret.val # NilVal

\* the part of a URL between the scheme and the first "/" after it
HostOf(u) ==
    LET r == TrimPrefix(TrimPrefix(u, "https://"), "http://")
        cut == {i \in 1..Len(r) : SubSeq(r, i, i) = "/"}
    IN  IF cut = {} THEN r
        ELSE SubSeq(r, 1, (CHOOSE i \in cut : \A j \in cut : i <= j) - 1)

\* C18: a github server URL becomes https://api.github.com only when its
\* host is exactly github.com; on any other host the URL keeps its host and
\* gets the /api/v3 suffix unless it already contains an /api/ path.
C18_GHEEndpoint ==
    (/\ Done("factory.NewClient")
     /\ args.driver \in {"", "github"}
     /\ args.url # "") =>
        LET u == args.url
            r == ret.val.url
        IN  IF HostOf(u) = "github.com"
            THEN r = "https://api.github.com"
            ELSE /\ HostOf(r) = HostOf(u)
                 /\ r = IF Contains(u, "/api/") THEN u ELSE URLJoin(u, "/api/v3")

\* FindLogin of the gitlab driver is running or has returned
InFindLogin == op = "gitlab.Users.FindLogin"

\* a fetched page held a user whose name is the login, letter case aside
Matched == \E n \in seen : EqualFold(n, args.login)

\* what C19 says apart from the order of the pages
C19_Outcome ==
    InFindLogin =>
        /\ apc = "FindLogin" => ~Matched
        /\ apc = "done" =>
             /\ Len(sent) >= 1
             /\ ret.err \in {NoErr, ErrHTTP, ErrNotFound}
             /\ ret.err = ErrHTTP => ret.val = NilVal /\ ret.res = NilResp
             /\ ret.err = NoErr =>
                  /\ ret.val.kind = "user"
                  /\ ret.val.Login \in seen
                  /\ EqualFold(ret.val.Login, args.login)
             /\ ret.err = ErrNotFound =>
                  /\ ret.val = NilVal
                  /\ ~Matched
                  /\ ret.res = resp
                  /\ ~resp.nil
                  /\ Len(sent) >= resp.last

\* the i-th request asks for page i of the search
PagesInOrder ==
    \A i \in 1..Len(sent) : sent[i].kind = "search" /\ sent[i].page = i

\* every request is the lookup of the user whose id is the login
LookupsById ==
    \A i \in 1..Len(sent) :
       sent[i] = [kind |-> "user", login |-> args.login, page |-> 0]

Terminates == (apc = "FindLogin") ~> (apc = "done")

C19_WitnessFound ==
    /\ Done("gitlab.Users.FindLogin")
    /\ args.login = "alice"
    /\ ret.err = NoErr
    /\ ret.val.Login = "Alice"
    /\ Len(sent) = 2

C19_WitnessNumber ==
    /\ Done("gitlab.Users.FindLogin")
    /\ IsNumber(args.login)
    /\ Len(sent) = 2

====
